---- MODULE Spec2Model ----
(***************************************************************************)
(* Model of megatron/data/realm_dataset.py: the masked-LM dataset          *)
(* (REALMDataset), the inverse-cloze dataset (ICTDataset), the sequence    *)
(* framer (concat_and_pad_tokens), the evidence block accessors and the    *)
(* strict-mode text escaping of decode_tokens.                             *)
(*                                                                         *)
(* Python lists are sequences; Python indices are 0-based and are shifted  *)
(* by one where a sequence is indexed.  Strings are sequences of           *)
(* one-character strings.                                                  *)
(***************************************************************************)
EXTENDS Integers, Sequences, FiniteSets, TLC

VARIABLES
    seed,                 \* self.seed
    max_seq_length,       \* self.max_seq_length
    query_in_block_prob,  \* self.query_in_block_prob, in sixteenths
    use_titles,           \* self.use_titles
    block_dataset,        \* self.block_dataset: sentences, by block index
    title_dataset,        \* self.title_dataset: titles, by document index
    samples_mapping,      \* self.samples_mapping: rows (start, end, doc, block)
    rng,                  \* ICTDataset.rng: the state of random.Random(self.seed)
    realm_rng,            \* REALMDataset.rng: the state of random.Random(self.seed)
    ncalls,               \* number of ICTDataset.__getitem__ calls made
    last,                 \* what the last call did and returned
    joined_strs,          \* decode_tokens: the joined text (input)
    decoded,              \* decode_tokens: the returned text
    reescaped,            \* the escaping applied again to `decoded`
    dpc                   \* position of the decode scenario

vars == <<seed, max_seq_length, query_in_block_prob, use_titles, block_dataset,
          title_dataset, samples_mapping, rng, realm_rng, ncalls, last,
          joined_strs, decoded, reescaped, dpc>>

datasetVars == <<seed, max_seq_length, query_in_block_prob, use_titles,
                 block_dataset, title_dataset, samples_mapping, rng, realm_rng,
                 ncalls, last>>

decodeVars == <<joined_strs, decoded, reescaped, dpc>>

----------------------------------------------------------------------------
(* Bounds of the model *)

\* largest max_seq_length a dataset is constructed with
MaxSeqLen == 7

\* largest seed a dataset is constructed with
MaxSeed == 1

\* largest number of ICTDataset.__getitem__ calls in one behaviour
MaxCalls == 3

\* longest payload handed directly to concat_and_pad_tokens
MaxPayload == 2

\* longest joined text handed to the escaping step
MaxStrLen == 4

----------------------------------------------------------------------------
(* Tokenizer ids (self.tokenizer.cls / sep / mask / pad) *)

cls_id == 101

sep_id == 102

mask_id == 103

pad_id == 0

----------------------------------------------------------------------------
(* Python list primitives *)

Min(a, b) == IF a < b THEN a ELSE b

Max(a, b) == IF a > b THEN a ELSE b

\* s[:n] with a negative n clamped to the empty list
PySlice_Clamped(s, n) ==
    SubSeq(s, 1, Min(Max(n, 0), Len(s)))

\* s[:n]: the first n elements, or, for n < 0, all but the last -n elements
PySlice(s, n) ==
    IF n >= 0 THEN SubSeq(s, 1, Min(n, Len(s)))
    ELSE SubSeq(s, 1, Max(0, Len(s) + n))

\* list(itertools.chain(*block))
RECURSIVE Flatten(_)
Flatten(block) ==
    IF block = <<>> THEN <<>>
    ELSE Head(block) \o Flatten(Tail(block))

\* block.pop(i) forgetting to remove: the list is left as it was
pop_KeepsAll(block, i) ==
    block

\* the list left by block.pop(i), i 0-based
pop(block, i) ==
    SubSeq(block, 1, i) \o SubSeq(block, i + 2, Len(block))

\* [x] * n
Repeat(x, n) ==
    [k \in 1..Max(n, 0) |-> x]

----------------------------------------------------------------------------
(* random.Random / np.random.RandomState: a deterministic generator whose  *)
(* every draw advances its state (a full-period congruential generator on  *)
(* 16 states stands for the library's generator).                          *)

\* random.Random(seed), np.random.RandomState(seed=seed)
RngSeed(s) ==
    (7 * s + 3) % 16

\* the state after one draw
RngNext(s) ==
    (13 * s + 1) % 16

\* rng.randint(a, b) read from the state reached by the draw
randint(s, a, b) ==
    a + ((s \div 4) % (b - a + 1))

\* rng.random() read from the state reached by the draw, in sixteenths
random(s) ==
    s

----------------------------------------------------------------------------
(* Sequence framer *)

NoTitle == [has |-> FALSE, toks |-> <<>>]

SomeTitle(t) == [has |-> TRUE, toks |-> t]

\* the tokens joined with the special tokens (lines 200-203)
Framed(tokens, title) ==
    IF ~title.has THEN <<cls_id>> \o tokens \o <<sep_id>>
    ELSE <<cls_id>> \o title.toks \o <<sep_id>> \o tokens \o <<sep_id>>

\* concat_and_pad_tokens without the length assertion
concat_and_pad_tokens_NoAssert(tokens, title) ==
    LET t == Framed(tokens, title)
        num_pad == max_seq_length - Len(t)
    IN  [ok |-> TRUE,
         tokens |-> t \o Repeat(pad_id, num_pad),
         pad_mask |-> Repeat(1, Len(t)) \o Repeat(0, num_pad)]

\* concat_and_pad_tokens marking the closing [SEP] as padding
concat_and_pad_tokens_ShortMask(tokens, title) ==
    LET t == Framed(tokens, title)
        num_pad == max_seq_length - Len(t)
    IN  IF Len(t) > max_seq_length
        THEN [ok |-> FALSE, tokens |-> <<>>, pad_mask |-> <<>>]
        ELSE [ok |-> TRUE,
              tokens |-> t \o Repeat(pad_id, num_pad),
              pad_mask |-> Repeat(1, Len(t) - 1) \o Repeat(0, num_pad + 1)]

\* concat_and_pad_tokens(tokens, title): ok = FALSE is the failed assertion
concat_and_pad_tokens(tokens, title) ==
    LET t == Framed(tokens, title)
        num_pad == max_seq_length - Len(t)
    IN  IF Len(t) > max_seq_length
        THEN [ok |-> FALSE, tokens |-> <<>>, pad_mask |-> <<>>]
        ELSE [ok |-> TRUE,
              tokens |-> t \o Repeat(pad_id, num_pad),
              pad_mask |-> Repeat(1, Len(t)) \o Repeat(0, num_pad)]

----------------------------------------------------------------------------
(* What a call leaves to be observed *)

NoCall ==
    [op |-> "none", idx |-> 0, status |-> "none",
     draws |-> 0, framings |-> 0,
     rand_sent_idx |-> 0, retained |-> FALSE,
     title |-> NoTitle, sentences |-> <<>>, trunc |-> 0,
     query |-> <<>>, block |-> <<>>,
     query_tokens |-> <<>>, query_pad_mask |-> <<>>,
     block_tokens |-> <<>>, block_pad_mask |-> <<>>,
     block_data |-> <<>>,
     labels |-> <<>>]

\* [list(self.block_dataset[i]) for i in range(start_idx, end_idx)]
BlockOf(start_idx, end_idx) ==
    [k \in 1..Max(end_idx - start_idx, 0) |-> block_dataset[start_idx + k]]

\* assert len(block) > 0, an off-by-one precondition
AssertBlock_NonEmpty(block) ==
    Len(block) > 0

\* assert len(block) > 1
AssertBlock(block) ==
    Len(block) > 1

\* query[:self.max_seq_length - 3], an off-by-one budget
QueryBudget_Short ==
    max_seq_length - 3

\* the query's length budget, self.max_seq_length - 2
QueryBudget ==
    max_seq_length - 2

----------------------------------------------------------------------------
(* ICTDataset.__getitem__(idx) run from generator state r *)

ICTDataset_getitem(r, idx) ==
    LET row == samples_mapping[idx + 1]
        start_idx == row[1]
        end_idx == row[2]
        doc_idx == row[3]
        title == IF use_titles THEN SomeTitle(title_dataset[doc_idx + 1]) ELSE NoTitle
        title_pad_offset == IF use_titles THEN 3 + Len(title.toks) ELSE 2
        block == BlockOf(start_idx, end_idx)
        base == [NoCall EXCEPT !.op = "ict", !.idx = idx, !.title = title,
                               !.sentences = block,
                               !.trunc = max_seq_length - title_pad_offset]
    IN  IF ~AssertBlock(block)
        THEN [rng |-> r, obs |-> [base EXCEPT !.status = "assert_block"]]
        ELSE
        LET r1 == RngNext(r)
            rand_sent_idx == randint(r1, 0, Len(block) - 1)
            r2 == RngNext(r1)
            retained == random(r2) < query_in_block_prob
            query0 == block[rand_sent_idx + 1]
            block1 == IF retained THEN block ELSE pop(block, rand_sent_idx)
            query == PySlice(query0, QueryBudget)
            payload == PySlice(Flatten(block1), max_seq_length - title_pad_offset)
            q == concat_and_pad_tokens(query, NoTitle)
            b == concat_and_pad_tokens(payload, title)
            drawn == [base EXCEPT !.draws = 2, !.rand_sent_idx = rand_sent_idx,
                                  !.retained = retained, !.query = query,
                                  !.block = payload]
        IN  IF ~q.ok
            THEN [rng |-> r2,
                  obs |-> [drawn EXCEPT !.status = "assert_frame", !.framings = 1]]
            ELSE IF ~b.ok
            THEN [rng |-> r2,
                  obs |-> [drawn EXCEPT !.status = "assert_frame", !.framings = 2]]
            ELSE [rng |-> r2,
                  obs |-> [drawn EXCEPT !.status = "ok", !.framings = 2,
                                        !.query_tokens = q.tokens,
                                        !.query_pad_mask = q.pad_mask,
                                        !.block_tokens = b.tokens,
                                        !.block_pad_mask = b.pad_mask,
                                        !.block_data = row]]

----------------------------------------------------------------------------
(* build_realm_training_sample and REALMDataset.__getitem__ *)

\* build_realm_training_sample(block, max_seq_length, ..., np_rng): the block
\* flattened, truncated and framed, one payload position masked
build_realm_training_sample(block, np_rng) ==
    LET payload == PySlice(Flatten(block), Max(max_seq_length - 2, 0))
        t == <<cls_id>> \o payload \o <<sep_id>>
        r1 == RngNext(np_rng)
        pos == IF payload = <<>> THEN 0 ELSE 1 + randint(r1, 1, Len(payload))
        num_pad == max_seq_length - Len(t)
    IN  [tokens |-> [k \in 1..Len(t) |-> IF k = pos THEN mask_id ELSE t[k]]
                    \o Repeat(pad_id, num_pad),
         pad_mask |-> Repeat(1, Len(t)) \o Repeat(0, num_pad),
         labels |-> [k \in 1..Len(t) |-> IF k = pos THEN t[k] ELSE -1]
                    \o Repeat(-1, num_pad),
         draws |-> IF payload = <<>> THEN 0 ELSE 1]

REALMDataset_getitem(idx) ==
    LET row == samples_mapping[idx + 1]
        block == BlockOf(row[1], row[2])
        base == [NoCall EXCEPT !.op = "realm", !.idx = idx, !.sentences = block]
    IN  IF ~AssertBlock(block)
        THEN [base EXCEPT !.status = "assert_block"]
        ELSE
        LET np_rng == RngSeed(seed + idx)
            sample == build_realm_training_sample(block, np_rng)
        IN  [base EXCEPT !.status = "ok", !.draws = sample.draws,
                         !.framings = 1,
                         !.block_tokens = sample.tokens,
                         !.block_pad_mask = sample.pad_mask,
                         !.labels = sample.labels,
                         !.block_data = <<row[4]>>]

----------------------------------------------------------------------------
(* Evidence block accessors *)

get_block(start_idx, end_idx, doc_idx) ==
    LET title == title_dataset[doc_idx + 1]
        block == PySlice(Flatten(BlockOf(start_idx, end_idx)),
                         max_seq_length - (3 + Len(title)))
    IN  [f |-> concat_and_pad_tokens(block, SomeTitle(title)),
         block |-> block, title |-> SomeTitle(title)]

get_null_block ==
    concat_and_pad_tokens(<<>>, SomeTitle(<<>>))

\* the observation left by a bare framing call
FramingObs(op, idx, payload, title, f) ==
    [NoCall EXCEPT !.op = op, !.idx = idx,
                   !.status = IF f.ok THEN "ok" ELSE "assert_frame",
                   !.framings = 1, !.title = title, !.block = payload,
                   !.block_tokens = f.tokens, !.block_pad_mask = f.pad_mask]

----------------------------------------------------------------------------
(* Text reconstructor: decode_tokens from the joined text on *)

escape_chars ==
    {"+", "-", "&", "!", "(", ")", "{", "}", "[", "]", "^", "\"", "~", "*", "?", ":", "/"}

\* the placeholder 'text here'
TextHere == <<"t", "e", "x", "t", " ", "h", "e", "r", "e">>

\* the backslashes of the joined text left in place
StripBackslashes_Keep(s) ==
    s

\* [s for s in joined_strs if s != '\\']
StripBackslashes(s) ==
    SelectSeq(s, LAMBDA c : c # "\\")

\* lst.insert(i, x), i 0-based
InsertAt(lst, i, x) ==
    SubSeq(lst, 1, i) \o <<x>> \o SubSeq(lst, i + 1, Len(lst))

\* for i, c in enumerate(joined_strs): the list grows while it is iterated
RECURSIVE EscapeLoop(_, _, _)
EscapeLoop(lst, i, skip_me) ==
    IF i >= Len(lst) THEN lst
    ELSE IF skip_me THEN EscapeLoop(lst, i + 1, FALSE)
    ELSE IF lst[i + 1] \in escape_chars
         THEN EscapeLoop(InsertAt(lst, i, "\\"), i + 1, TRUE)
         ELSE EscapeLoop(lst, i + 1, FALSE)

\* the escaping step: strip the backslashes, then escape
Escape(s) ==
    EscapeLoop(StripBackslashes(s), 0, FALSE)

\* decode_tokens(token_ids, hardcore) once the surface tokens are joined
decode_tokens(joined, hardcore) ==
    IF hardcore
    THEN LET e == Escape(joined)
         IN  IF Len(e) < 3 THEN e \o TextHere ELSE e
    ELSE joined

----------------------------------------------------------------------------
(* Inputs *)

SeqsUpTo(S, n) == UNION {[1..k -> S] : k \in 0..n}

\* corpora the datasets are constructed over: sentences, titles, mapping rows
Corpora ==
    << [blocks |-> << <<7, 8>>, <<9, 10>>, <<7, 8>> >>,
        titles |-> << <<5>> >>,
        mapping |-> << <<0, 2, 0, 0>>, <<0, 3, 0, 1>>, <<2, 3, 0, 2>> >>],
       [blocks |-> << <<pad_id, 9>>, <<>>, <<7>>, <<7, 8>> >>,
        titles |-> << <<5, 6, 5>>, <<>> >>,
        mapping |-> << <<0, 2, 0, 0>>, <<2, 4, 1, 1>>, <<1, 1, 1, 2>> >>] >>

\* query_in_block_prob: 0.0, 0.5, 1.0 (in sixteenths)
Probs == {0, 8, 16}

PayloadTokens == {pad_id, 7}

\* titles handed directly to concat_and_pad_tokens: none, empty, one token
FrameTitles == {NoTitle, SomeTitle(<<>>), SomeTitle(<<5>>)}

Chars == {"(", "+", "a", "\\"}

Rows == 0..(Len(samples_mapping) - 1)

----------------------------------------------------------------------------
(* The datasets *)

\* ICTDataset.__init__ and REALMDataset.__init__ over the same corpus
Init ==
    /\ seed \in 0..MaxSeed
    /\ max_seq_length \in 0..MaxSeqLen
    /\ query_in_block_prob \in Probs
    /\ use_titles \in BOOLEAN
    /\ \E c \in 1..Len(Corpora) :
          /\ block_dataset = Corpora[c].blocks
          /\ title_dataset = Corpora[c].titles
          /\ samples_mapping = Corpora[c].mapping
    /\ rng = RngSeed(seed)
    /\ realm_rng = RngSeed(seed)
    /\ ncalls = 0
    /\ last = NoCall
    /\ joined_strs = <<>>
    /\ decoded = <<>>
    /\ reescaped = <<>>
    /\ dpc = "off"

ICT_GetItem ==
    /\ ncalls < MaxCalls
    /\ \E idx \in Rows :
          LET res == ICTDataset_getitem(rng, idx)
          IN  /\ rng' = res.rng
              /\ last' = res.obs
    /\ ncalls' = ncalls + 1
    /\ UNCHANGED <<seed, max_seq_length, query_in_block_prob, use_titles,
                   block_dataset, title_dataset, samples_mapping, realm_rng>>
    /\ UNCHANGED decodeVars

REALM_GetItem ==
    /\ \E idx \in Rows : last' = REALMDataset_getitem(idx)
    /\ UNCHANGED <<seed, max_seq_length, query_in_block_prob, use_titles,
                   block_dataset, title_dataset, samples_mapping, rng,
                   realm_rng, ncalls>>
    /\ UNCHANGED decodeVars

GetBlock ==
    /\ \E idx \in Rows :
          LET row == samples_mapping[idx + 1]
              g == get_block(row[1], row[2], row[3])
          IN  last' = FramingObs("get_block", idx, g.block, g.title, g.f)
    /\ UNCHANGED <<seed, max_seq_length, query_in_block_prob, use_titles,
                   block_dataset, title_dataset, samples_mapping, rng,
                   realm_rng, ncalls>>
    /\ UNCHANGED decodeVars

GetNullBlock ==
    /\ last' = FramingObs("get_null_block", 0, <<>>, SomeTitle(<<>>), get_null_block)
    /\ UNCHANGED <<seed, max_seq_length, query_in_block_prob, use_titles,
                   block_dataset, title_dataset, samples_mapping, rng,
                   realm_rng, ncalls>>
    /\ UNCHANGED decodeVars

ConcatAndPad ==
    /\ \E tokens \in SeqsUpTo(PayloadTokens, MaxPayload) :
       \E title \in FrameTitles :
          last' = FramingObs("frame", 0, tokens, title,
                             concat_and_pad_tokens(tokens, title))
    /\ UNCHANGED <<seed, max_seq_length, query_in_block_prob, use_titles,
                   block_dataset, title_dataset, samples_mapping, rng,
                   realm_rng, ncalls>>
    /\ UNCHANGED decodeVars

Next ==
    \/ ICT_GetItem
    \/ REALM_GetItem
    \/ GetBlock
    \/ GetNullBlock

Spec == Init /\ [][Next]_vars

----------------------------------------------------------------------------
(* The sequence framer called directly and through its callers *)

InitFrame ==
    /\ seed = 0
    /\ max_seq_length \in 0..MaxSeqLen
    /\ query_in_block_prob \in Probs
    /\ use_titles \in BOOLEAN
    /\ \E c \in 1..Len(Corpora) :
          /\ block_dataset = Corpora[c].blocks
          /\ title_dataset = Corpora[c].titles
          /\ samples_mapping = Corpora[c].mapping
    /\ rng = RngSeed(0)
    /\ realm_rng = RngSeed(0)
    /\ ncalls = 0
    /\ last = NoCall
    /\ joined_strs = <<>>
    /\ decoded = <<>>
    /\ reescaped = <<>>
    /\ dpc = "off"

NextFrame ==
    \/ ConcatAndPad
    \/ GetBlock
    \/ GetNullBlock
    \/ ICT_GetItem

SpecFrame == InitFrame /\ [][NextFrame]_vars

----------------------------------------------------------------------------
(* The text reconstructor on every joined text up to MaxStrLen characters *)

InitDecode ==
    /\ seed = 0
    /\ max_seq_length = MaxSeqLen
    /\ query_in_block_prob = 0
    /\ use_titles = TRUE
    /\ block_dataset = Corpora[1].blocks
    /\ title_dataset = Corpora[1].titles
    /\ samples_mapping = Corpora[1].mapping
    /\ rng = RngSeed(0)
    /\ realm_rng = RngSeed(0)
    /\ ncalls = 0
    /\ last = NoCall
    /\ joined_strs \in SeqsUpTo(Chars, MaxStrLen)
    /\ decoded = <<>>
    /\ reescaped = <<>>
    /\ dpc = "joined"

DecodeTokens ==
    /\ dpc = "joined"
    /\ \E hardcore \in BOOLEAN :
          /\ decoded' = decode_tokens(joined_strs, hardcore)
          /\ dpc' = IF hardcore THEN "strict" ELSE "plain"
    /\ UNCHANGED <<joined_strs, reescaped>>
    /\ UNCHANGED datasetVars

EscapeAgain ==
    /\ dpc = "strict"
    /\ reescaped' = Escape(decoded)
    /\ dpc' = "again"
    /\ UNCHANGED <<joined_strs, decoded>>
    /\ UNCHANGED datasetVars

NextDecode ==
    \/ DecodeTokens
    \/ EscapeAgain

SpecDecode == InitDecode /\ [][NextDecode]_vars

----------------------------------------------------------------------------
(* Vocabulary of the properties *)

Range(s) == {s[k] : k \in 1..Len(s)}

\* the first n elements of x (none when n <= 0)
FirstN(x, n) == [k \in 1..Min(n, Len(x)) |-> x[k]]

\* x without its last k elements
DropLast(x, k) == [j \in 1..(Len(x) - k) |-> x[j]]

\* x right-padded with pad_id to max_seq_length
PadTo(x) == x \o [k \in 1..(max_seq_length - Len(x)) |-> pad_id]

\* q occurs in s as a contiguous run
IsRun(q, s) ==
    \E k \in 0..(Len(s) - Len(q)) : SubSeq(s, k + 1, k + Len(q)) = q

\* the sentences from the i-th on, in order, leaving out the sentence at `skip`
RECURSIVE ConcatFrom(_, _, _)
ConcatFrom(sents, i, skip) ==
    IF i > Len(sents) THEN <<>>
    ELSE (IF i = skip THEN <<>> ELSE sents[i]) \o ConcatFrom(sents, i + 1, skip)

\* the arrays a get(index) call returns
OutputArrays(o) ==
    <<o.status, o.query_tokens, o.query_pad_mask, o.block_tokens,
      o.block_pad_mask, o.block_data, o.labels>>

IctReturned == last.op = "ict" /\ last.status = "ok"

\* a framed (tokens, pad mask) pair was returned by the framer
BlockFramed ==
    last.op \in {"ict", "get_block", "get_null_block", "frame"} /\ last.status = "ok"

\* the sentence picked as query, the title of the row and its pad offset
Picked == last.sentences[last.rand_sent_idx + 1]

RowTitle == title_dataset[samples_mapping[last.idx + 1][3] + 1]

RowOffset == IF use_titles THEN 3 + Len(RowTitle) ELSE 2

\* the block's sentences that stay in the block, concatenated in order
Remaining ==
    ConcatFrom(last.sentences, 1, IF last.retained THEN 0 ELSE last.rand_sent_idx + 1)

----------------------------------------------------------------------------
(* C1: for a fixed seed and index, get(index) returns the same arrays      *)
(* whatever calls were made before: the arrays returned now are those a    *)
(* freshly constructed dataset with the same seed returns for that index.  *)
C1_Deterministic ==
    /\ IctReturned =>
          OutputArrays(last)
             = OutputArrays(ICTDataset_getitem(RngSeed(seed), last.idx).obs)
    /\ (last.op = "realm" /\ last.status = "ok") =>
          OutputArrays(last) = OutputArrays(REALMDataset_getitem(last.idx))

(* C2: no step changes the corpus, the titles, the sample mapping or a     *)
(* generator state held by a dataset instance.                             *)
C2_NoLastingEffect ==
    [][/\ block_dataset' = block_dataset
       /\ title_dataset' = title_dataset
       /\ samples_mapping' = samples_mapping
       /\ rng' = rng
       /\ realm_rng' = realm_rng]_vars

(* C3: every returned framed result has tokens and pad mask of length      *)
(* max_seq_length (query and block of ICTDataset.__getitem__, get_block,   *)
(* get_null_block, concat_and_pad_tokens), whatever the payload and title. *)
C3_FramedLength ==
    BlockFramed =>
       /\ Len(last.block_tokens) = max_seq_length
       /\ Len(last.block_pad_mask) = max_seq_length
       /\ last.op = "ict" =>
             /\ Len(last.query_tokens) = max_seq_length
             /\ Len(last.query_pad_mask) = max_seq_length

\* the null block (empty payload, empty title) was framed and returned
C3_Witness ==
    /\ last.op = "get_null_block"
    /\ last.status = "ok"
    /\ last.block_tokens = <<cls_id, sep_id, sep_id>> \o Repeat(pad_id, max_seq_length - 3)
    /\ max_seq_length > 3

(* C4 as stated: at every position of a framed result the pad mask is 1    *)
(* exactly where the token is not pad_id.                                  *)
C4_PadMaskIff ==
    BlockFramed =>
       /\ \A i \in 1..Len(last.block_tokens) :
             (last.block_pad_mask[i] = 1) <=> (last.block_tokens[i] # pad_id)
       /\ \A i \in 1..Len(last.query_tokens) :
             (last.query_pad_mask[i] = 1) <=> (last.query_tokens[i] # pad_id)

(* C4 amended: the pad mask is 1 exactly on the positions of the framed    *)
(* sequence before padding and 0 after them, so a 0 marks a pad_id token;  *)
(* a 1 marks a token other than pad_id when neither the payload nor the    *)
(* title contains pad_id.                                                  *)
C4_PadMaskAmended ==
    BlockFramed =>
       LET n == Len(last.block) + 2
                + (IF last.title.has THEN 1 + Len(last.title.toks) ELSE 0)
           m == Len(last.query) + 2
       IN  /\ Len(last.block_pad_mask) = Len(last.block_tokens)
           /\ \A i \in 1..Len(last.block_tokens) :
                 /\ last.block_pad_mask[i] = (IF i <= n THEN 1 ELSE 0)
                 /\ last.block_pad_mask[i] = 0 => last.block_tokens[i] = pad_id
                 /\ pad_id \notin (Range(last.block) \cup Range(last.title.toks)) =>
                       ((last.block_pad_mask[i] = 1) <=> (last.block_tokens[i] # pad_id))
           /\ Len(last.query_pad_mask) = Len(last.query_tokens)
           /\ \A i \in 1..Len(last.query_tokens) :
                 /\ last.query_pad_mask[i] = (IF i <= m THEN 1 ELSE 0)
                 /\ last.query_pad_mask[i] = 0 => last.query_tokens[i] = pad_id
                 /\ pad_id \notin Range(last.query) =>
                       ((last.query_pad_mask[i] = 1) <=> (last.query_tokens[i] # pad_id))

\* a payload holding pad_id was framed with a title and padded
C4_Witness ==
    /\ last.op = "frame"
    /\ last.status = "ok"
    /\ pad_id \in Range(last.block)
    /\ last.title.has
    /\ Len(last.block) + 3 + Len(last.title.toks) < max_seq_length

(* C5 as stated: with query_in_block_prob = 0 the token sequence of the    *)
(* picked sentence does not occur in the flattened block.                  *)
C5_QueryAbsent ==
    (IctReturned /\ query_in_block_prob = 0) => ~IsRun(Picked, last.block)

(* C5 amended: with query_in_block_prob = 0 the picked sentence is always  *)
(* removed: the flattened block is the concatenation of the other          *)
(* sentences cut to max_seq_length - title_pad_offset tokens, and the      *)
(* picked sentence's tokens are absent from it when they are non-empty and *)
(* are not a contiguous run of the other sentences' concatenation.         *)
C5_QueryRemoved ==
    (IctReturned /\ query_in_block_prob = 0) =>
       LET others == ConcatFrom(last.sentences, 1, last.rand_sent_idx + 1)
       IN  /\ ~last.retained
           /\ last.block = FirstN(others, max_seq_length - RowOffset)
           /\ (Picked # <<>> /\ ~IsRun(Picked, others)) => ~IsRun(Picked, last.block)

\* a non-empty sentence that its neighbours do not repeat was held out
C5_Witness ==
    /\ IctReturned
    /\ query_in_block_prob = 0
    /\ Picked # <<>>
    /\ ~IsRun(Picked, ConcatFrom(last.sentences, 1, last.rand_sent_idx + 1))
    /\ last.block # <<>>

(* C6: a returned sample has query_tokens = [CLS] + s[:max_seq_length - 2] *)
(* + [SEP] + pads and block_tokens = [CLS] (+ title + [SEP]) + P + [SEP]   *)
(* + pads, P the first max_seq_length - title_pad_offset tokens of the     *)
(* sentences left in the block, in order.                                  *)
C6_SampleShape ==
    IctReturned =>
       LET P == FirstN(Remaining, max_seq_length - RowOffset)
       IN  /\ last.query_tokens
                = PadTo(<<cls_id>> \o FirstN(Picked, max_seq_length - 2) \o <<sep_id>>)
           /\ last.block_tokens
                = IF use_titles
                  THEN PadTo(<<cls_id>> \o RowTitle \o <<sep_id>> \o P \o <<sep_id>>)
                  ELSE PadTo(<<cls_id>> \o P \o <<sep_id>>)

\* a sample with a title whose block and query were both truncated
C6_Witness ==
    /\ IctReturned
    /\ use_titles
    /\ ~last.retained
    /\ Len(Remaining) > max_seq_length - RowOffset
    /\ Len(Picked) > max_seq_length - 2

(* C7: for a row whose query sentence is retained, get_block returns the   *)
(* block_tokens and block_pad_mask of ICTDataset.__getitem__ for that row, *)
(* titles enabled or not.                                                  *)
C7_GetBlockAgrees ==
    (IctReturned /\ last.retained) =>
       LET row == samples_mapping[last.idx + 1]
           g == get_block(row[1], row[2], row[3]).f
       IN  /\ g.ok
           /\ g.tokens = last.block_tokens
           /\ g.pad_mask = last.block_pad_mask

(* C8: get(index) on a row of at most one sentence fails the block         *)
(* precondition and returns nothing, in both datasets, before any random   *)
(* draw (the generator state is left as it was) and before any framing.    *)
C8_PreconditionFirst ==
    [][(last'.op \in {"ict", "realm"}
          /\ samples_mapping[last'.idx + 1][2] - samples_mapping[last'.idx + 1][1] <= 1
          /\ (ncalls' # ncalls \/ last' # last))
       => /\ last'.status = "assert_block"
          /\ last'.draws = 0
          /\ last'.framings = 0
          /\ rng' = rng
          /\ realm_rng' = realm_rng
          /\ last'.query_tokens = <<>>
          /\ last'.block_tokens = <<>>
          /\ last'.block_data = <<>>]_vars

\* the inverse-cloze dataset refused a one-sentence row after earlier draws
C8_Witness ==
    /\ last.op = "ict"
    /\ last.status = "assert_block"
    /\ Len(last.sentences) = 1
    /\ rng # RngSeed(seed)

(* C9: in strict mode every reserved character of the escaped text is      *)
(* preceded by exactly one backslash, no two backslashes are adjacent,     *)
(* every backslash is followed by a reserved character, and escaping the   *)
(* escaped text again returns it unchanged.                                *)
C9_Escaped ==
    /\ dpc \in {"strict", "again"} =>
          /\ \A i \in 1..Len(decoded) :
                /\ decoded[i] \in escape_chars =>
                      /\ i > 1
                      /\ decoded[i - 1] = "\\"
                      /\ (i > 2 => decoded[i - 2] # "\\")
                /\ decoded[i] = "\\" =>
                      /\ i < Len(decoded)
                      /\ decoded[i + 1] \in escape_chars
          /\ \A i \in 1..(Len(decoded) - 1) :
                ~(decoded[i] = "\\" /\ decoded[i + 1] = "\\")
    /\ dpc = "again" => reescaped = decoded

\* a text with a backslash escape and adjacent reserved characters was escaped twice
C9_Witness ==
    /\ dpc = "again"
    /\ Len(joined_strs) >= 3
    /\ joined_strs[1] = "\\"
    /\ joined_strs[2] = "("
    /\ joined_strs[3] = "+"
    /\ decoded = <<"\\", "(", "\\", "+">> \o SubSeq(decoded, 5, Len(decoded))

\* the call is one C10 speaks of: max_seq_length >= 2, more than one sentence
C10_Case ==
    last.op = "ict" /\ max_seq_length >= 2 /\ Len(last.sentences) > 1

(* C10 as stated: such a call fails the framing assertion exactly when     *)
(* titles are enabled and len(title) + 3 > max_seq_length; it then has a   *)
(* negative truncation length, a payload that is not empty but cut from    *)
(* its end, and two draws made.                                            *)
C10_NotEmptied ==
    C10_Case =>
       /\ (last.status = "assert_frame") <=> (use_titles /\ Len(RowTitle) + 3 > max_seq_length)
       /\ last.status \in {"assert_frame", "ok"}
       /\ last.status = "assert_frame" =>
             /\ last.trunc < 0
             /\ last.block # <<>>
             /\ last.block = DropLast(Remaining, -last.trunc)
             /\ last.draws = 2

(* C10 amended: as stated, except that the payload is the flattened block  *)
(* without its last title_pad_offset - max_seq_length tokens, which is     *)
(* empty when the flattened block has no more tokens than that; the        *)
(* generator has made its two draws when the assertion fires.              *)
C10_CutFromEnd ==
    [][(C10_Case' /\ ncalls' # ncalls) =>
          /\ (last'.status = "assert_frame")
                <=> (use_titles /\ Len(RowTitle') + 3 > max_seq_length)
          /\ last'.status \in {"assert_frame", "ok"}
          /\ last'.status = "assert_frame" =>
                /\ last'.trunc = max_seq_length - (3 + Len(RowTitle'))
                /\ last'.trunc < 0
                /\ last'.block = DropLast(Remaining', -last'.trunc)
                /\ (last'.block = <<>>) <=> (Len(Remaining') <= -last'.trunc)
                /\ last'.framings = 2
                /\ last'.draws = 2
                /\ rng' = RngNext(RngNext(rng))
                /\ rng' # rng]_vars

\* the framing assertion fired on a payload cut from its end and not emptied
C10_Witness ==
    /\ C10_Case
    /\ last.status = "assert_frame"
    /\ last.trunc < 0
    /\ last.block # <<>>
    /\ Len(last.block) < Len(Remaining)

====
